---- MODULE Spec2Model ----
(***************************************************************************)
(* Focus tracking of the pro-search widget                                 *)
(* (packages/pro/search/src/composables/useFocusedState.ts).               *)
(*                                                                         *)
(* One tracker instance: the focused flag, the subsequent-focus debouncer  *)
(* (shouldCheck / subsequentFocus and one zero-delay timer per blur), the  *)
(* region registrar (primary element, lazily discovered overlay            *)
(* container) and the component life cycle.  The environment is the DOM:   *)
(* focus enters and leaves the two regions, timers and nextTick callbacks  *)
(* run, the host toggles props.disabled, the overlay container is          *)
(* rendered, the component is mounted and unmounted.                       *)
(***************************************************************************)
EXTENDS Integers, Sequences, FiniteSets, TLC

\* Bounds of the exploration.
MaxEvents == 4       \* focus/blur events delivered to the tracker in one run
MaxQuietEvents == 6  \* the same, in the runs without host calls (SpecQuiet, SpecSingle)
MaxBlurCalls == 1    \* programmatic blur() calls in one run

Primary == "primary"     \* elementRef
Overlay == "overlay"     \* the overlay container
Regions == {Primary, Overlay}
NoRegion == "none"

VARIABLES
    focused,                    \* useState(false), line 36
    shouldCheck,                \* line 130
    subsequentFocus,            \* line 131
    timers,                     \* pending setTimeout continuations of handleBlur (FIFO), each holding its event
    log,                        \* the calls made on the collaborators, in order: pre-callbacks, setInactive, setFocused, callEmit
    disabled,                   \* props.disabled
    lifecycle,                  \* "setup" | "mounted" | "unmounted"
    monitoredElements,          \* line 191
    subscribed,                 \* regions with a live subscription in the shared focus monitor
    overlayContainerMonitored,  \* line 215
    probes,                     \* nextTick callbacks of line 225 not yet run
    containerExists,            \* whether getOverlayContainer() finds an element now
    domFocus,                   \* region that holds DOM focus, or NoRegion
    evtSeq,                     \* focus/blur events delivered so far; the n-th delivered event is event n
    blurCalls,                  \* programmatic blur() calls so far
    locatorQueries,             \* calls of getOverlayContainer() so far
    overlayBinds,               \* bindMonitor(container, ...) calls so far
    windows,                    \* history, parallel to timers: what happened since each pending blur
    lastEvt,                    \* history: the most recent delivered event and the state it met
    lastFired,                  \* history: the most recent timer that fired and the state it met
    skippedProbes,              \* history: probes that returned at line 227
    nativeFocus,                \* options of a native elementRef.focus(options) call whose focus event is still to come, or NoCall
    segmentValues,              \* tempSearchState.segmentValues, line 100
    activeSegment,              \* name of the active segment of the temporary search state, or Undefined
    prevActiveSegmentName,      \* line 94
    containerProp,              \* commonOverlayProps.value.container, line 76
    document,                   \* the selectors that match an element of the document now
    resolved,                   \* what the last getContainerEl call returned
    dataKeyMap,                 \* pro transfer: key -> children of the item (part_000 line 50)
    targetKeys,                 \* pro transfer: targetKeys.value (part_000 line 35)
    headerCount                 \* pro transfer: the count of the last header label rendered

vars == << focused, shouldCheck, subsequentFocus, timers, log, disabled, lifecycle,
           monitoredElements, subscribed, overlayContainerMonitored, probes,
           containerExists, domFocus, evtSeq, blurCalls, locatorQueries, overlayBinds,
           windows, lastEvt, lastFired, skippedProbes, nativeFocus, segmentValues,
           activeSegment, prevActiveSegmentName, containerProp, document, resolved,
           dataKeyMap, targetKeys, headerCount >>

\* the state of the two stand-alone functions: container resolution and
\* the transfer header count
functionVars == << containerProp, document, resolved, dataKeyMap, targetKeys, headerCount >>

segmentVars == << segmentValues, activeSegment, prevActiveSegmentName >>

debouncerVars == << focused, shouldCheck, subsequentFocus, log >>

registrarVars == << lifecycle, monitoredElements, subscribed, overlayContainerMonitored,
                    locatorQueries, overlayBinds, skippedProbes >>

(***************************************************************************)
(* The debouncer as functions of its state d =                             *)
(* [focused, shouldCheck, subsequentFocus, log].                           *)
(***************************************************************************)
Call(op, evt) == [op |-> op, evt |-> evt]

Debouncer == [focused |-> focused, shouldCheck |-> shouldCheck,
              subsequentFocus |-> subsequentFocus, log |-> log]

\* lines 136-137: the part of checkSubsequentFocus before the await
checkSubsequentFocus_open(d) ==
    [d EXCEPT !.subsequentFocus = FALSE, !.shouldCheck = TRUE]

\* a slip: the wrong flag is returned
checkSubsequentFocus_result_wrongFlag(d) == d.shouldCheck

\* lines 140-144: the part after the await; the value returned
checkSubsequentFocus_result(d) == d.subsequentFocus

\* a slip: shouldCheck is left set when the timer has fired
checkSubsequentFocus_close_keepsCheck(d) ==
    [d EXCEPT !.subsequentFocus = FALSE]

\* lines 141-142
checkSubsequentFocus_close(d) ==
    [d EXCEPT !.subsequentFocus = FALSE, !.shouldCheck = FALSE]

\* a slip: the host is notified before the state is updated
blurEffect_notifiesFirst(d, evt) ==
    [d EXCEPT !.focused = FALSE,
              !.log = d.log \o << Call("preBlur", evt), Call("onBlur", evt),
                                  Call("setInactive", evt), Call("setFocusedFalse", evt) >>]

\* lines 154-158 with the cb of lines 48-53, then blur effect
blurEffect(d, evt) ==
    [d EXCEPT !.focused = FALSE,
              !.log = d.log \o << Call("preBlur", evt), Call("setInactive", evt),
                                  Call("setFocusedFalse", evt), Call("onBlur", evt) >>]

\* a slip: the test of line 150 negated
handleBlur_resume_negated(d, evt) ==
    IF checkSubsequentFocus_result(d)
    THEN blurEffect(checkSubsequentFocus_close(d), evt)
    ELSE checkSubsequentFocus_close(d)

\* lines 146-159, from the moment the timer has fired
handleBlur_resume(d, evt) ==
    IF checkSubsequentFocus_result(d)
    THEN checkSubsequentFocus_close(d)
    ELSE blurEffect(checkSubsequentFocus_close(d), evt)

\* a slip: the focus is recorded whether a check is open or not
markSubsequentFocus_always(d) == [d EXCEPT !.subsequentFocus = TRUE]

\* lines 163-165
markSubsequentFocus(d) ==
    IF d.shouldCheck THEN [d EXCEPT !.subsequentFocus = TRUE] ELSE d

\* lines 171-174 with the cb of lines 61-65
focusEffect(d, evt) ==
    [d EXCEPT !.focused = TRUE,
              !.log = d.log \o << Call("preFocus", evt), Call("setFocusedTrue", evt),
                                  Call("onFocus", evt) >>]

\* a slip: the early return of lines 167-169 left out
handleFocus_noGuard(d, evt) == focusEffect(markSubsequentFocus(d), evt)

\* lines 161-175
handleFocus(d, evt) ==
    LET d1 == markSubsequentFocus(d)
    IN  IF d1.focused THEN d1 ELSE focusEffect(d1, evt)

\* a slip: the disabled test of lines 57-59 left out
_handleFocus_noDisabledTest(d, evt, dis) == handleFocus(d, evt)

\* lines 56-66
_handleFocus(d, evt, dis) ==
    IF dis THEN d ELSE handleFocus(d, evt)

\* a slip: setFocused(false) of line 73 left out
blurCall_onlyInactive(d) ==
    [d EXCEPT !.log = d.log \o << Call("setInactive", 0) >>]

\* lines 71-74
blurCall(d) ==
    [d EXCEPT !.focused = FALSE,
              !.log = d.log \o << Call("setInactive", 0), Call("setFocusedFalse", 0) >>]

\* a slip: focus() marks the widget focused itself
focusCall_setsFocused(d) == [d EXCEPT !.focused = TRUE]

\* lines 68-70: focus(options) touches nothing of the tracker; all it does
\* is elementRef.value?.focus(options)
focusCall(d) == d

SetDebouncer(d) ==
    /\ focused' = d.focused
    /\ shouldCheck' = d.shouldCheck
    /\ subsequentFocus' = d.subsequentFocus
    /\ log' = d.log

Undefined == "undefined"
NoCall == "no call"
Null == "null"

(***************************************************************************)
(* Container resolution, lines 81-85.  A value is an element handle, a     *)
(* string (a sequence of characters), null or undefined; a container prop  *)
(* is a value or a function returning one.  The document is what           *)
(* document.querySelector returns now for each selector that is valid; any *)
(* other selector is a SyntaxError.                                        *)
(***************************************************************************)
Elements == {"e1", "e2"}
ContainerNames == {<< "a" >>, << "b" >>}
Selectors == {<< c >> \o n : c \in {".", "#"}, n \in ContainerNames}

ElementValue(e) == [kind |-> "element", el |-> e, s |-> << >>]
StringValue(str) == [kind |-> "string", el |-> "", s |-> str]
NullValue == [kind |-> "null", el |-> "", s |-> << >>]
UndefinedValue == [kind |-> "undefined", el |-> "", s |-> << >>]
SyntaxError == [kind |-> "SyntaxError", el |-> "", s |-> << >>]
NotRun == [kind |-> "not run", el |-> "", s |-> << >>]

ContainerValues ==
    {ElementValue(e) : e \in Elements}
        \cup {StringValue(str) : str \in ContainerNames \cup Selectors}
        \cup {UndefinedValue}

ContainerProps == [fn : BOOLEAN, val : ContainerValues]

Documents == [Selectors -> Elements \cup {Null}]

querySelector(doc, sel) ==
    IF sel \notin DOMAIN doc
    THEN SyntaxError
    ELSE IF doc[sel] = Null THEN NullValue ELSE ElementValue(doc[sel])

\* a slip: only '#' is taken as the mark of a selector
getContainerEl_hashOnly(containerProp_, doc) ==
    LET container == containerProp_.val
    IN  IF container.kind = "string"
        THEN querySelector(doc, IF container.s[1] = "#"
                                THEN container.s
                                ELSE << "." >> \o container.s)
        ELSE container

\* lines 81-85
getContainerEl(containerProp_, doc) ==
    LET container == containerProp_.val
    IN  IF container.kind = "string"
        THEN querySelector(doc, IF container.s[1] \in {".", "#"}
                                THEN container.s
                                ELSE << "." >> \o container.s)
        ELSE container

(***************************************************************************)
(* The active segment of the temporary search state: lines 87-119 and the  *)
(* callbacks of lines 48-53 and 61-65.                                     *)
(***************************************************************************)
tempSearchStateKey == "temp"
NoSegment == [itemKey |-> Undefined, name |-> Undefined]

\* line 102: a segment value that is truthy
HasValue(seg) == seg.value # Undefined

\* a slip: the loop of lines 101-106 runs from the first segment upwards
setTempSegmentActive_firstValued(prev, segs) ==
    IF prev # Undefined
    THEN prev
    ELSE LET valued == {idx \in 1..Len(segs) : HasValue(segs[idx])}
         IN  IF valued # {}
             THEN segs[CHOOSE idx \in valued : \A j \in valued : idx <= j].name
             ELSE IF Len(segs) > 0 THEN segs[1].name ELSE "name"

\* lines 96-111: the name handed to setTempActive
setTempSegmentActive(prev, segs) ==
    IF prev # Undefined
    THEN prev
    ELSE LET valued == {idx \in 1..Len(segs) : HasValue(segs[idx])}
         IN  IF valued # {}
             THEN segs[CHOOSE idx \in valued : \A j \in valued : j <= idx].name
             ELSE IF Len(segs) > 0 THEN segs[1].name ELSE "name"

\* lines 49-53: the name recorded by the pre-blur callback
setPrevActiveSegmentName(active) ==
    IF active.itemKey = tempSearchStateKey THEN active.name ELSE Undefined

\* lines 41-45: the watcher, run after other code has made next the active
\* segment
watchActiveSegment(next, isFocused, prev, segs) ==
    IF next = NoSegment /\ isFocused
    THEN [itemKey |-> tempSearchStateKey, name |-> setTempSegmentActive(prev, segs)]
    ELSE next

Segments == [active |-> activeSegment, prev |-> prevActiveSegmentName]

\* the effect on the segments of one call made by the debouncer:
\* the pre-focus callback (lines 61-65), the pre-blur callback (lines
\* 48-53) and setInactive (lines 71, 156)
segmentAfter(seg, call, onElement, segs) ==
    CASE call.op = "preFocus" ->
            IF onElement
            THEN [seg EXCEPT !.active = [itemKey |-> tempSearchStateKey,
                                         name |-> setTempSegmentActive(seg.prev, segs)]]
            ELSE seg
      [] call.op = "preBlur" ->
            [seg EXCEPT !.prev = setPrevActiveSegmentName(seg.active)]
      [] call.op = "setInactive" -> [seg EXCEPT !.active = NoSegment]
      [] OTHER -> seg

RECURSIVE segmentsAfter(_, _, _, _)
segmentsAfter(seg, calls, onElement, segs) ==
    IF calls = << >>
    THEN seg
    ELSE segmentsAfter(segmentAfter(seg, Head(calls), onElement, segs), Tail(calls),
                       onElement, segs)

\* the segments follow the calls the step has added to the log
SegmentsFollow(onElement) ==
    LET seg == segmentsAfter(Segments, SubSeq(log', Len(log) + 1, Len(log')), onElement,
                             segmentValues)
    IN  /\ activeSegment' = seg.active
        /\ prevActiveSegmentName' = seg.prev
        /\ UNCHANGED segmentValues

NoEvt == [origin |-> "none", region |-> NoRegion, disabled |-> FALSE,
          focusedBefore |-> FALSE]

NoFired == [evt |-> 0, focusedAtBlur |-> FALSE, focusSeen |-> FALSE,
            focusedBefore |-> FALSE, pending |-> FALSE]

(***************************************************************************)
(* The tree-type transfer's default header label.  An item either has no   *)
(* children property or has a list of children; the label carries a count. *)
(***************************************************************************)
NotRendered == -1
NoHeader == [source |-> NotRendered, target |-> NotRendered]

\* the test of a leaf: !item[childrenKey] || item[childrenKey].length <= 0
isLeaf(item) == ~item.hasChildren \/ Len(item.children) <= 0

\* new Set(targetKeys.value)
targetKeySet(keys) == {keys[i] : i \in 1..Len(keys)}

\* dataKeyMap.forEach(...) of the source side
sourceCount(map, keys) ==
    Cardinality({key \in DOMAIN map : key \notin targetKeySet(keys) /\ isLeaf(map[key])})

\* targetKeys.value?.forEach(...) of the target side
RECURSIVE targetCount(_, _)
targetCount(map, keys) ==
    IF keys = << >>
    THEN 0
    ELSE (IF Head(keys) \in DOMAIN map /\ isLeaf(map[Head(keys)]) THEN 1 ELSE 0)
             + targetCount(map, Tail(keys))

\* a slip: the source side counts every leaf, moved to the target or not
renderTranferTreeHeaderLabel_everyLeaf(isSource, map, keys) ==
    IF isSource
    THEN Cardinality({key \in DOMAIN map : isLeaf(map[key])})
    ELSE targetCount(map, keys)

\* the count in the label returned by renderTranferTreeHeaderLabel
renderTranferTreeHeaderLabel(isSource, map, keys) ==
    IF isSource THEN sourceCount(map, keys) ELSE targetCount(map, keys)

\* the tracker after setup: lines 27-39, 130-131, 191, 215
Setup ==
    /\ focused = FALSE
    /\ shouldCheck = FALSE
    /\ subsequentFocus = FALSE
    /\ timers = << >>
    /\ log = << >>
    /\ disabled = FALSE
    /\ lifecycle = "setup"
    /\ monitoredElements = {}
    /\ subscribed = {}
    /\ overlayContainerMonitored = FALSE
    /\ probes = 0
    /\ containerExists = FALSE
    /\ domFocus = NoRegion
    /\ evtSeq = 0
    /\ blurCalls = 0
    /\ locatorQueries = 0
    /\ overlayBinds = 0
    /\ windows = << >>
    /\ lastEvt = NoEvt
    /\ lastFired = NoFired
    /\ skippedProbes = 0
    /\ nativeFocus = NoCall
    /\ activeSegment = NoSegment
    /\ prevActiveSegmentName = Undefined

\* no container configured, nothing in the document
NoContainer ==
    /\ containerProp = [fn |-> FALSE, val |-> UndefinedValue]
    /\ document = [sel \in Selectors |-> Null]
    /\ resolved = NotRun

\* a transfer without data
NoTransfer ==
    /\ dataKeyMap = << >>
    /\ targetKeys = << >>
    /\ headerCount = NoHeader

Init ==
    /\ Setup
    /\ segmentValues = << >>
    /\ NoContainer
    /\ NoTransfer

\* onMounted, lines 217-239: bindMonitor(elementRef, ...)
Mount ==
    /\ lifecycle = "setup"
    /\ lifecycle' = "mounted"
    /\ subscribed' = subscribed \cup {Primary}
    /\ monitoredElements' = monitoredElements \cup {Primary}
    /\ UNCHANGED debouncerVars
    /\ UNCHANGED << timers, disabled, overlayContainerMonitored, probes, containerExists,
                    domFocus, evtSeq, blurCalls, locatorQueries, overlayBinds, windows,
                    lastEvt, lastFired, skippedProbes >>
    /\ UNCHANGED << nativeFocus, segmentVars, functionVars >>

\* history: every pending blur has now seen a delivered focus event on r;
\* refocused: the event was accepted (widget enabled) while focused was
\* true, on another region than the blur's
NoteFocus(w, t, r, accepted) ==
    [i \in 1..Len(w) |->
        [w[i] EXCEPT !.focusSeen = TRUE,
                     !.refocused = w[i].refocused \/ (accepted /\ t[i].region # r)]]

\* Focus enters region r (or moves between children of r).  If r is
\* monitored the focus monitor delivers origin = true: lines 197-206.
\* The primary region's onFocus is the wrapper of lines 220-236, which
\* also schedules the discovery probe; the overlay's onFocus is
\* _handleFocus itself (line 232).  The primary element is in the document
\* only while the component is mounted.  onElement: the event's target
\* is elementRef.value itself (line 62) and not one of its descendants.
DomFocus(r, max, onElement) ==
    /\ evtSeq < max
    /\ r = Primary => lifecycle = "mounted"
    /\ domFocus \in {NoRegion, r}
    /\ r = Overlay => containerExists
    /\ domFocus' = r
    /\ IF r \in subscribed
       THEN /\ evtSeq' = evtSeq + 1
            /\ SetDebouncer(_handleFocus(Debouncer, evtSeq + 1, disabled))
            /\ probes' = IF r = Primary THEN probes + 1 ELSE probes
            /\ windows' = NoteFocus(windows, timers, r, ~disabled /\ focused)
            /\ lastEvt' = [origin |-> "focus", region |-> r,
                           disabled |-> disabled, focusedBefore |-> focused]
       ELSE /\ UNCHANGED debouncerVars
            /\ UNCHANGED << evtSeq, probes, windows, lastEvt >>
    /\ SegmentsFollow(onElement)
    /\ UNCHANGED << timers, disabled, containerExists, blurCalls, lastFired >>
    /\ UNCHANGED registrarVars
    /\ UNCHANGED functionVars

\* Focus leaves region r.  If r is monitored the focus monitor delivers
\* origin = false and _handleBlur runs up to the await of line 138:
\* lines 47-54, 146-150, 136-138.
DomBlur(r, max) ==
    /\ evtSeq < max
    /\ domFocus = r
    /\ domFocus' = NoRegion
    /\ IF r \in subscribed
       THEN /\ evtSeq' = evtSeq + 1
            /\ SetDebouncer(checkSubsequentFocus_open(Debouncer))
            /\ timers' = Append(timers, [evt |-> evtSeq + 1, region |-> r])
            /\ windows' = Append(windows, [focusedAtBlur |-> focused, focusSeen |-> FALSE,
                                           refocused |-> FALSE])
            /\ lastEvt' = [origin |-> "blur", region |-> r,
                           disabled |-> disabled, focusedBefore |-> focused]
       ELSE /\ UNCHANGED debouncerVars
            /\ UNCHANGED << evtSeq, timers, windows, lastEvt >>
    /\ UNCHANGED << probes, disabled, containerExists, blurCalls, lastFired >>
    /\ UNCHANGED registrarVars
    /\ UNCHANGED << nativeFocus, segmentVars, functionVars >>

\* The oldest zero-delay timer fires and the handleBlur that awaited it
\* runs to its end: lines 138-144, 150-158.
TimerFire ==
    /\ timers # << >>
    /\ SetDebouncer(handleBlur_resume(Debouncer, Head(timers).evt))
    /\ timers' = Tail(timers)
    /\ windows' = Tail(windows)
    /\ lastFired' = [evt |-> Head(timers).evt,
                     focusedAtBlur |-> Head(windows).focusedAtBlur,
                     focusSeen |-> Head(windows).focusSeen,
                     focusedBefore |-> focused, pending |-> subsequentFocus]
    /\ UNCHANGED << probes, disabled, containerExists, domFocus, evtSeq, blurCalls,
                    lastEvt >>
    /\ UNCHANGED registrarVars
    /\ SegmentsFollow(FALSE)
    /\ UNCHANGED << nativeFocus, functionVars >>

\* The host calls blur() on the mounted component: lines 71-74.
blur ==
    /\ blurCalls < MaxBlurCalls
    /\ lifecycle = "mounted"
    /\ blurCalls' = blurCalls + 1
    /\ SetDebouncer(blurCall(Debouncer))
    /\ UNCHANGED << timers, windows, probes, disabled, containerExists, domFocus, evtSeq,
                    lastEvt, lastFired >>
    /\ UNCHANGED registrarVars
    /\ SegmentsFollow(FALSE)
    /\ UNCHANGED << nativeFocus, functionVars >>

FocusOptions == {"no options", "preventScroll"}

\* The host calls focus(options): lines 68-70.  The call reaches the
\* element only while the template ref is set, that is while mounted; the
\* browser then moves DOM focus and the focus event arrives later.
focus ==
    /\ \E options \in FocusOptions :
          nativeFocus' = IF lifecycle = "mounted" THEN options ELSE nativeFocus
    /\ SetDebouncer(focusCall(Debouncer))
    /\ UNCHANGED << timers, windows, probes, disabled, containerExists, domFocus, evtSeq,
                    blurCalls, lastEvt, lastFired >>
    /\ UNCHANGED registrarVars
    /\ UNCHANGED << segmentVars, functionVars >>

\* a slip: the latch is never consulted
ProbeSkips_never(latch) == FALSE

\* lines 226-228: a probe returns early once the latch is set
ProbeSkips(latch) == latch

\* a slip: the probe binds whatever the locator returned
ProbeBinds_always(found) == TRUE

\* lines 230-231: the probe binds when the locator finds the container
ProbeBinds(found) == found

\* One nextTick callback of lines 225-235 runs.  It was scheduled by a
\* focus event on the primary region and nothing cancels it, so it also
\* runs when the component was unmounted in between.
ProbeRun ==
    /\ probes > 0
    /\ probes' = probes - 1
    /\ IF ProbeSkips(overlayContainerMonitored)
       THEN /\ skippedProbes' = skippedProbes + 1
            /\ UNCHANGED << locatorQueries, subscribed, monitoredElements, overlayBinds,
                            overlayContainerMonitored >>
       ELSE /\ locatorQueries' = locatorQueries + 1
            /\ UNCHANGED skippedProbes
            /\ IF ProbeBinds(containerExists)
               THEN /\ subscribed' = subscribed \cup {Overlay}
                    /\ monitoredElements' = monitoredElements \cup {Overlay}
                    /\ overlayBinds' = overlayBinds + 1
                    /\ overlayContainerMonitored' = TRUE
               ELSE UNCHANGED << subscribed, monitoredElements, overlayBinds,
                                 overlayContainerMonitored >>
    /\ UNCHANGED debouncerVars
    /\ UNCHANGED << timers, disabled, lifecycle, containerExists, domFocus, evtSeq,
                    blurCalls, windows, lastEvt, lastFired >>
    /\ UNCHANGED << nativeFocus, segmentVars, functionVars >>

\* lines 211-213: stopMonitoring for every element stored so far
unbindMonitor(subs, stored) == subs \ stored

\* onBeforeUnmount, lines 240-242.  The primary element leaves the
\* document, and DOM focus with it.
Unmount ==
    /\ lifecycle = "mounted"
    /\ lifecycle' = "unmounted"
    /\ subscribed' = unbindMonitor(subscribed, monitoredElements)
    /\ domFocus' = IF domFocus = Primary THEN NoRegion ELSE domFocus
    /\ UNCHANGED debouncerVars
    /\ UNCHANGED << timers, disabled, monitoredElements, overlayContainerMonitored, probes,
                    containerExists, evtSeq, blurCalls, locatorQueries,
                    overlayBinds, windows, lastEvt, lastFired, skippedProbes >>
    /\ UNCHANGED << nativeFocus, segmentVars, functionVars >>

\* The host changes props.disabled.
SetDisabled ==
    /\ lifecycle = "mounted"
    /\ disabled' = ~disabled
    /\ UNCHANGED debouncerVars
    /\ UNCHANGED << timers, probes, containerExists, domFocus, evtSeq, blurCalls, windows,
                    lastEvt, lastFired >>
    /\ UNCHANGED registrarVars
    /\ UNCHANGED << nativeFocus, segmentVars, functionVars >>

\* An inner overlay renders, so the overlay container now exists.
RenderContainer ==
    /\ ~containerExists
    /\ containerExists' = TRUE
    /\ UNCHANGED debouncerVars
    /\ UNCHANGED << timers, disabled, probes, domFocus, evtSeq, blurCalls, windows,
                    lastEvt, lastFired >>
    /\ UNCHANGED registrarVars
    /\ UNCHANGED << nativeFocus, segmentVars, functionVars >>

\* under these hosts focus always enters the primary region on the root
\* element itself
FocusPrimary == DomFocus(Primary, MaxEvents, TRUE) /\ UNCHANGED nativeFocus
FocusOverlay == DomFocus(Overlay, MaxEvents, FALSE) /\ UNCHANGED nativeFocus
BlurPrimary == DomBlur(Primary, MaxEvents)
BlurOverlay == DomBlur(Overlay, MaxEvents)

Next ==
    \/ Mount
    \/ Unmount
    \/ FocusPrimary
    \/ FocusOverlay
    \/ BlurPrimary
    \/ BlurOverlay
    \/ TimerFire
    \/ ProbeRun
    \/ blur
    \/ SetDisabled
    \/ RenderContainer

Spec == Init /\ [][Next]_vars

(***************************************************************************)
(* The same tracker with a host that stays out of the way: the widget      *)
(* stays enabled and mounted and blur() is never called.  Only DOM focus   *)
(* events, timers, probes and the rendering of the overlay container.      *)
(***************************************************************************)
QuietFocusPrimary == DomFocus(Primary, MaxQuietEvents, TRUE) /\ UNCHANGED nativeFocus
QuietFocusOverlay == DomFocus(Overlay, MaxQuietEvents, FALSE) /\ UNCHANGED nativeFocus
QuietBlurPrimary == DomBlur(Primary, MaxQuietEvents)
QuietBlurOverlay == DomBlur(Overlay, MaxQuietEvents)

NextQuiet ==
    \/ Mount
    \/ QuietFocusPrimary
    \/ QuietFocusOverlay
    \/ QuietBlurPrimary
    \/ QuietBlurOverlay
    \/ TimerFire
    \/ ProbeRun
    \/ RenderContainer

SpecQuiet == Init /\ [][NextQuiet]_vars

(***************************************************************************)
(* The quiet host again, and the overlay container is never rendered: all  *)
(* events are delivered on the primary region, the only monitored one.     *)
(***************************************************************************)
NextSingle ==
    \/ Mount
    \/ QuietFocusPrimary
    \/ QuietBlurPrimary
    \/ TimerFire
    \/ ProbeRun

SpecSingle == Init /\ [][NextSingle]_vars

(***************************************************************************)
(* The quiet host that also calls focus().  The focus event of a native    *)
(* focus call targets the root element.                                    *)
(***************************************************************************)
FocusLands ==
    /\ nativeFocus # NoCall
    /\ DomFocus(Primary, MaxQuietEvents, TRUE)
    /\ nativeFocus' = NoCall

NextHostFocus ==
    \/ Mount
    \/ focus
    \/ FocusLands
    \/ QuietFocusOverlay
    \/ QuietBlurPrimary
    \/ QuietBlurOverlay
    \/ TimerFire
    \/ ProbeRun
    \/ RenderContainer

SpecHostFocus == Init /\ [][NextHostFocus]_vars

(***************************************************************************)
(* Container resolution on its own: any container prop against any         *)
(* document; the host may change the prop and the document may change.     *)
(***************************************************************************)
InitContainer ==
    /\ Setup
    /\ segmentValues = << >>
    /\ containerProp \in ContainerProps
    /\ document \in Documents
    /\ resolved = NotRun
    /\ NoTransfer

\* getOverlayContainer(), line 230 with line 76
getOverlayContainer ==
    /\ resolved' = getContainerEl(containerProp, document)
    /\ UNCHANGED << containerProp, document, dataKeyMap, targetKeys, headerCount >>
    /\ UNCHANGED << debouncerVars, registrarVars, segmentVars, nativeFocus, timers,
                    disabled, probes, containerExists, domFocus, evtSeq, blurCalls,
                    windows, lastEvt, lastFired >>

\* the host configures another container
SetContainerProp ==
    /\ \E c \in ContainerProps : c # containerProp /\ containerProp' = c
    /\ resolved' = NotRun
    /\ UNCHANGED << document, dataKeyMap, targetKeys, headerCount >>
    /\ UNCHANGED << debouncerVars, registrarVars, segmentVars, nativeFocus, timers,
                    disabled, probes, containerExists, domFocus, evtSeq, blurCalls,
                    windows, lastEvt, lastFired >>

\* an element enters or leaves the document
DocumentChanges ==
    /\ \E sel \in Selectors, e \in Elements \cup {Null} :
          /\ document[sel] # e
          /\ document' = [document EXCEPT ![sel] = e]
    /\ resolved' = NotRun
    /\ UNCHANGED << containerProp, dataKeyMap, targetKeys, headerCount >>
    /\ UNCHANGED << debouncerVars, registrarVars, segmentVars, nativeFocus, timers,
                    disabled, probes, containerExists, domFocus, evtSeq, blurCalls,
                    windows, lastEvt, lastFired >>

NextContainer ==
    \/ getOverlayContainer
    \/ SetContainerProp
    \/ DocumentChanges

SpecContainer == InitContainer /\ [][NextContainer]_vars

(***************************************************************************)
(* The tracker over any temporary search state.  Focus enters the primary  *)
(* region on the root element or on a descendant; other code of the widget *)
(* activates a segment of a search item or deactivates the active one.     *)
(***************************************************************************)
MaxSegments == 2
SegmentNames == {"name", "operator", "input"}
SegmentInputs ==
    {segs \in UNION {[1..n -> [name : SegmentNames, value : {Undefined, "v"}]] :
                        n \in 0..MaxSegments} :
        \A i, j \in 1..Len(segs) : segs[i].name = segs[j].name => i = j}

InitSegments ==
    /\ Setup
    /\ segmentValues \in SegmentInputs
    /\ NoContainer
    /\ NoTransfer

SegFocusPrimary ==
    /\ \E onElement \in BOOLEAN : DomFocus(Primary, MaxEvents, onElement)
    /\ UNCHANGED nativeFocus

\* setActive / setInactive called by other code, then the watcher
ActiveSegmentChanges ==
    /\ \E next \in {NoSegment} \cup {[itemKey |-> "item", name |-> n] : n \in SegmentNames} :
          /\ next # activeSegment
          /\ activeSegment' = watchActiveSegment(next, focused, prevActiveSegmentName,
                                                 segmentValues)
    /\ UNCHANGED << segmentValues, prevActiveSegmentName, nativeFocus, functionVars >>
    /\ UNCHANGED << debouncerVars, registrarVars, timers, disabled, probes,
                    containerExists, domFocus, evtSeq, blurCalls, windows, lastEvt,
                    lastFired >>

NextSegments ==
    \/ Mount
    \/ SegFocusPrimary
    \/ BlurPrimary
    \/ TimerFire
    \/ ProbeRun
    \/ ActiveSegmentChanges

SpecSegments == InitSegments /\ [][NextSegments]_vars

(***************************************************************************)
(* Zero-delay timers fire: the event loop runs every timer callback that   *)
(* is due (line 138), so a pending timer is not postponed for ever.        *)
(***************************************************************************)
SpecFair == Spec /\ WF_vars(TimerFire)

SpecQuietFair == SpecQuiet /\ WF_vars(TimerFire)

(***************************************************************************)
(* The transfer header on its own: any tree data, any target keys; the     *)
(* header of either side is rendered, and the user moves keys.             *)
(***************************************************************************)
MaxTargetKeys == 2
TransferKeys == {"k1", "k2", "k3"}
TransferItems ==
    { [hasChildren |-> FALSE, children |-> << >>],
      [hasChildren |-> TRUE, children |-> << >>],
      [hasChildren |-> TRUE, children |-> << "child" >>] }
TargetKeyLists == UNION {[1..n -> TransferKeys] : n \in 0..MaxTargetKeys}

InitTransfer ==
    /\ Setup
    /\ segmentValues = << >>
    /\ NoContainer
    /\ dataKeyMap \in UNION {[present -> TransferItems] : present \in SUBSET TransferKeys}
    /\ targetKeys \in TargetKeyLists
    /\ headerCount = NoHeader

RenderHeader(isSource) ==
    /\ headerCount' =
           IF isSource
           THEN [headerCount EXCEPT
                    !.source = renderTranferTreeHeaderLabel(TRUE, dataKeyMap, targetKeys)]
           ELSE [headerCount EXCEPT
                    !.target = renderTranferTreeHeaderLabel(FALSE, dataKeyMap, targetKeys)]
    /\ UNCHANGED << dataKeyMap, targetKeys, containerProp, document, resolved >>
    /\ UNCHANGED << debouncerVars, registrarVars, segmentVars, nativeFocus, timers,
                    disabled, probes, containerExists, domFocus, evtSeq, blurCalls,
                    windows, lastEvt, lastFired >>

RenderSourceHeader == RenderHeader(TRUE)
RenderTargetHeader == RenderHeader(FALSE)

\* setTargetKeys: the user moves items between the sides
SetTargetKeys ==
    /\ \E keys \in TargetKeyLists : keys # targetKeys /\ targetKeys' = keys
    /\ headerCount' = NoHeader
    /\ UNCHANGED << dataKeyMap, containerProp, document, resolved >>
    /\ UNCHANGED << debouncerVars, registrarVars, segmentVars, nativeFocus, timers,
                    disabled, probes, containerExists, domFocus, evtSeq, blurCalls,
                    windows, lastEvt, lastFired >>

NextTransfer ==
    \/ RenderSourceHeader
    \/ RenderTargetHeader
    \/ SetTargetKeys

SpecTransfer == InitTransfer /\ [][NextTransfer]_vars

(***************************************************************************)
(* Properties                                                              *)
(***************************************************************************)
\* the host notifications emitted so far, in order
Emitted == SelectSeq(log, LAMBDA c : c.op \in {"onFocus", "onBlur"})

\* no call of the log belongs to the most recently delivered event
LastEventSilent == \A i \in 1..Len(log) : log[i].evt # evtSeq

\* C1: when a blur on one region is followed, before its timer fires, by an
\* accepted focus on another region while focused is true, the firing of
\* that timer emits nothing and leaves focused true.  Stated here for the
\* runs in which the widget stays enabled and blur() is never called, and
\* for the case where the latest event delivered before the timer fires
\* is a focus event, so that DOM focus is inside the widget.
C1_RefocusedBlurIsDropped ==
    [][ ( /\ timers # << >>
          /\ Len(timers') < Len(timers)
          /\ Head(windows).focusedAtBlur
          /\ Head(windows).refocused
          /\ lastEvt.origin = "focus" )
        => (focused' /\ log' = log) ]_vars

\* C2: when the timer of a blur that arrived while focused was true fires
\* and no focus event was delivered since that blur, that step emits
\* exactly one onBlur, carrying the blur's event, and focused is false
\* after it.
C2_GenuineBlur ==
    [][ ( /\ timers # << >>
          /\ Len(timers') < Len(timers)
          /\ Head(windows).focusedAtBlur
          /\ ~Head(windows).focusSeen )
        => ( /\ ~focused'
             /\ Emitted' = Append(Emitted, Call("onBlur", Head(timers).evt)) ) ]_vars

C2_Witness ==
    /\ lastFired.evt # 0
    /\ lastFired.focusedAtBlur
    /\ ~lastFired.focusSeen
    /\ ~focused
    /\ Emitted # << >>
    /\ Emitted[Len(Emitted)] = Call("onBlur", lastFired.evt)

\* C3: with all events on the single monitored region, once no timer is
\* pending, focused equals the origin of the most recent event.
C3_MirrorsLastEvent ==
    (timers = << >> /\ lastEvt.origin # "none")
        => (focused <=> lastEvt.origin = "focus")

\* C4: at most one debounce window is open: a blur that arrives while a
\* timer is pending schedules no second timer and no second decision.
C4_SingleWindow == Len(timers) <= 1

\* C5: a blur() call leaves focused false in the very step of the call.
C5_BlurCallImmediate ==
    [][ blurCalls' # blurCalls => ~focused' ]_vars

\* blur() was called while focused was true, a window open and a
\* subsequent focus recorded: only blur() makes focused false while
\* subsequentFocus is set
C5_Witness ==
    /\ blurCalls > 0
    /\ ~focused
    /\ timers # << >>
    /\ subsequentFocus

TimerDropsFocus ==
    /\ timers # << >>
    /\ Len(timers') < Len(timers)
    /\ ~subsequentFocus

AcceptedFocus ==
    /\ evtSeq' = evtSeq + 1
    /\ lastEvt'.origin = "focus"
    /\ ~disabled

\* C6 as claimed: focused goes from true to false only when a timer fires
\* with subsequentFocus false, and from false to true only in the step
\* that handles an accepted focus event.
C6_OnlyTimerDropsFocus ==
    [][ /\ (focused /\ ~focused') => TimerDropsFocus
        /\ (~focused /\ focused') => AcceptedFocus ]_vars

\* C6 amended: focused goes from true to false only when a timer fires
\* with subsequentFocus false or in a blur() call, and from false to true
\* only in the step that handles an accepted focus event.
C6_TimerOrBlurCallDropsFocus ==
    [][ /\ (focused /\ ~focused') => (TimerDropsFocus \/ blurCalls' # blurCalls)
        /\ (~focused /\ focused') => AcceptedFocus ]_vars

\* both ways down have been taken: a blur() call right after a focus
\* effect, and a timer that found focused true and no subsequent focus
C6_Witness ==
    /\ \E i \in 3..Len(log) :
          /\ log[i] = Call("setFocusedFalse", 0)
          /\ log[i - 2].op = "onFocus"
    /\ lastFired.evt # 0
    /\ lastFired.focusedBefore
    /\ ~lastFired.pending
    /\ ~focused

\* C7: a focus event delivered while focused is true leaves focused true
\* and makes no call (no pre-focus callback, no onFocus); handling the
\* same event once more changes nothing.
C7_FocusWhileFocused ==
    [][ ( /\ evtSeq' = evtSeq + 1
          /\ lastEvt'.origin = "focus"
          /\ focused )
        => ( /\ focused'
             /\ log' = log
             /\ _handleFocus(Debouncer', evtSeq', disabled') = Debouncer' ) ]_vars

C7_Witness ==
    /\ lastEvt.origin = "focus"
    /\ lastEvt.focusedBefore
    /\ ~lastEvt.disabled
    /\ focused
    /\ LastEventSilent

\* C8: the overlay container is bound at most once, and once the latch is
\* set no step queries the container locator.
C8_DiscoveryOnce ==
    [][ /\ overlayBinds' <= 1
        /\ overlayContainerMonitored => locatorQueries' = locatorQueries ]_vars

\* the container was bound, a later probe ran, and a second focus cycle
\* has begun
C8_Witness ==
    /\ overlayContainerMonitored
    /\ overlayBinds = 1
    /\ skippedProbes >= 1
    /\ Len(Emitted) >= 3

\* C9: after teardown no region is subscribed to the focus monitor.
C9_NothingSubscribedAfterUnmount ==
    lifecycle = "unmounted" => subscribed = {}

\* C10: a focus event delivered while the widget is disabled changes
\* neither focused nor the log (no pre-focus callback, no notification).
C10_DisabledFocusIgnored ==
    [][ ( /\ evtSeq' = evtSeq + 1
          /\ lastEvt'.origin = "focus"
          /\ disabled )
        => (focused' = focused /\ log' = log) ]_vars

C10_Witness ==
    /\ lastEvt.origin = "focus"
    /\ lastEvt.disabled
    /\ ~lastEvt.focusedBefore
    /\ ~focused
    /\ evtSeq > 0
    /\ LastEventSilent
\* C11: a focus(options) call only hands the options to the primary
\* element's native focus: the step leaves focused, shouldCheck,
\* subsequentFocus, the monitored regions and the log as they are, and
\* focused rises only in a step that handles a focus event.
C11_FocusCallOnlyDelegates ==
    [][ /\ (nativeFocus' # nativeFocus /\ nativeFocus' # NoCall)
            => /\ nativeFocus' \in FocusOptions
               /\ UNCHANGED << focused, shouldCheck, subsequentFocus, log,
                               monitoredElements, subscribed, timers >>
        /\ (~focused /\ focused') => AcceptedFocus ]_vars

\* focus() has been called with options on the mounted, unfocused widget
\* and nothing but the pending native request has changed
C11_Witness ==
    /\ nativeFocus = "preventScroll"
    /\ lifecycle = "mounted"
    /\ ~focused
    /\ log = << >>
    /\ subscribed = {Primary}

\* C12: while a blur's timer is pending, every delivered focus event sets
\* subsequentFocus, and when the timer of a blur whose window saw a focus
\* event fires, the blur is discarded: focused and the log stay as they
\* are (no pre-blur callback, no setInactive, no onBlur).
C12_FocusInWindowDiscardsBlur ==
    [][ /\ (timers # << >> /\ evtSeq' = evtSeq + 1 /\ lastEvt'.origin = "focus")
            => subsequentFocus'
        /\ (timers # << >> /\ Len(timers') < Len(timers) /\ Head(windows).focusSeen)
            => (focused' = focused /\ log' = log) ]_vars

\* C13: every onFocus in the log is directly preceded by the pre-focus
\* callback and setFocused(true) of the same event, every onBlur by the
\* pre-blur callback, setInactive(true) and setFocused(false) of the same
\* event, in that order; and the step that emits onFocus ends with focused
\* true, the step that emits onBlur with focused false.
C13_StateBeforeNotification ==
    /\ [] \A i \in 1..Len(log) :
          /\ log[i].op = "onFocus"
                => /\ i >= 3
                   /\ log[i - 2] = Call("preFocus", log[i].evt)
                   /\ log[i - 1] = Call("setFocusedTrue", log[i].evt)
          /\ log[i].op = "onBlur"
                => /\ i >= 4
                   /\ log[i - 3] = Call("preBlur", log[i].evt)
                   /\ log[i - 2] = Call("setInactive", log[i].evt)
                   /\ log[i - 1] = Call("setFocusedFalse", log[i].evt)
    /\ [][ Len(log') > Len(log)
            => /\ log'[Len(log')].op = "onFocus" => focused'
               /\ log'[Len(log')].op = "onBlur" => ~focused' ]_vars

\* both notifications have been emitted, the widget disabled in between
C13_Witness ==
    /\ Len(Emitted) = 2
    /\ Emitted[1].op = "onFocus"
    /\ Emitted[2].op = "onBlur"
    /\ disabled

\* the step delivers a focus event on region r to the tracker
FocusDelivered(r) ==
    evtSeq' = evtSeq + 1 /\ lastEvt'.origin = "focus" /\ lastEvt'.region = r

\* C14: every focus event delivered on the primary region schedules one
\* probe; a probe that runs with the latch unset and no container to find
\* queries the locator, binds nothing and leaves the latch unset; a probe
\* that runs with the latch unset and finds the container subscribes it
\* (its focus events are then handled like the primary's) and sets the
\* latch; a probe that runs with the latch set does nothing; the overlay
\* container is bound at most once.
C14_ProbeRetriesUntilFound ==
    /\ [](overlayBinds <= 1)
    /\ [][ /\ FocusDelivered(Primary) => probes' = probes + 1
           /\ (probes' < probes /\ ~overlayContainerMonitored /\ ~containerExists)
               => /\ locatorQueries' = locatorQueries + 1
                  /\ ~overlayContainerMonitored'
                  /\ UNCHANGED << subscribed, monitoredElements, overlayBinds >>
           /\ (probes' < probes /\ ~overlayContainerMonitored /\ containerExists)
               => /\ locatorQueries' = locatorQueries + 1
                  /\ overlayContainerMonitored'
                  /\ subscribed' = subscribed \cup {Overlay}
                  /\ overlayBinds' = overlayBinds + 1
           /\ (probes' < probes /\ overlayContainerMonitored)
               => UNCHANGED << locatorQueries, overlayContainerMonitored, subscribed,
                               monitoredElements, overlayBinds >>
           /\ (FocusDelivered(Overlay) /\ ~disabled) => focused' ]_vars

\* a first probe found nothing, a later one found the container and bound
\* it, and a probe after that returned at the latch
C14_Witness ==
    /\ locatorQueries = 2
    /\ overlayBinds = 1
    /\ skippedProbes = 1
    /\ overlayContainerMonitored
    /\ Overlay \in subscribed

\* C15: the container that was resolved is: the handle itself when a
\* handle is given; for a string starting with '.' or '#' what
\* querySelector finds for that very string; for any other string s what
\* it finds for '.' followed by s; null when no element matches; and for
\* a function the same, applied to what the function returns.
C15_ContainerResolution ==
    resolved # NotRun =>
        LET given == containerProp.val
            first == given.s[1]
            sel == IF first = "." \/ first = "#" THEN given.s ELSE << "." >> \o given.s
        IN  CASE given.kind = "element" -> resolved = given
              [] given.kind = "string" ->
                    /\ sel \in Selectors
                    /\ document[sel] \in Elements => resolved = ElementValue(document[sel])
                    /\ document[sel] = Null => resolved = NullValue
              [] OTHER -> resolved = given

\* a function returned the bare name "a", no element has class a, and null
\* was resolved
C15_Witness ==
    /\ containerProp = [fn |-> TRUE, val |-> StringValue(<< "a" >>)]
    /\ document[<< ".", "a" >>] = Null
    /\ document[<< "#", "a" >>] = "e1"
    /\ resolved = NullValue

\* the step activates a segment of the temporary search state
TempSegmentRestored ==
    activeSegment' # activeSegment /\ activeSegment'.itemKey = tempSearchStateKey

\* the segments with a value after which no segment has a value
LastValued ==
    {i \in 1..Len(segmentValues) :
        /\ segmentValues[i].value # Undefined
        /\ \A j \in (i + 1)..Len(segmentValues) : segmentValues[j].value = Undefined}

\* the step runs the pre-blur callback and records what it should
PrevRecordedAtBlur ==
    (Len(log') > Len(log) /\ log'[Len(log) + 1].op = "preBlur")
        => prevActiveSegmentName' = IF activeSegment.itemKey = tempSearchStateKey
                                    THEN activeSegment.name
                                    ELSE Undefined

C17_NotificationsAlternate ==
    \A i \in 1..Len(Emitted) :
        Emitted[i].op = IF i % 2 = 1 THEN "onFocus" ELSE "onBlur"

\* the timer of blur event e is pending
Undecided(e) == \E i \in 1..Len(timers) : timers[i].evt = e

\* C18: with timers firing fairly, the timer of every blur event
\* eventually fires; whenever no timer is pending both flags are false;
\* the debouncer comes to rest again and again; and while the last event
\* delivered is a blur, focused eventually is false.
C18_BlurIsDecided ==
    /\ [](timers = << >> => (~shouldCheck /\ ~subsequentFocus))
    /\ \A e \in 1..MaxQuietEvents : Undecided(e) ~> ~Undecided(e)
    /\ []<>(timers = << >> /\ ~shouldCheck /\ ~subsequentFocus)
    /\ (lastEvt.origin = "blur") ~> (~focused \/ lastEvt.origin = "focus")

\* a blur was the last event, its timer has fired while focused was true
\* and the debouncer is at rest with focused false
C18_Witness ==
    /\ lastEvt.origin = "blur"
    /\ lastFired.evt = evtSeq
    /\ lastFired.focusedBefore
    /\ timers = << >>
    /\ ~shouldCheck
    /\ ~subsequentFocus
    /\ ~focused

\* the keys of the leaf entries of dataKeyMap
LeafKeys ==
    {k \in DOMAIN dataKeyMap :
        ~dataKeyMap[k].hasChildren \/ dataKeyMap[k].children = << >>}

TargetKeysDistinct ==
    \A i, j \in 1..Len(targetKeys) : targetKeys[i] = targetKeys[j] => i = j

\* C19: the source count rendered is the number of leaf entries whose key
\* is not a target key; the target count rendered is the number of target
\* keys (positions of the list) that map to a leaf entry; when the target
\* keys are distinct the two counts add up to the number of leaf entries.
C19_HeaderCounts ==
    /\ headerCount.source # NotRendered
          => headerCount.source =
                Cardinality({k \in LeafKeys : \A i \in 1..Len(targetKeys) : targetKeys[i] # k})
    /\ headerCount.target # NotRendered
          => headerCount.target =
                Cardinality({i \in 1..Len(targetKeys) : targetKeys[i] \in LeafKeys})
    /\ (headerCount.source # NotRendered /\ headerCount.target # NotRendered
                                         /\ TargetKeysDistinct)
          => headerCount.source + headerCount.target = Cardinality(LeafKeys)

\* both headers rendered for two leaves and one entry with children, with
\* a leaf and the entry with children among the distinct target keys
C19_Witness ==
    /\ DOMAIN dataKeyMap = {"k1", "k2", "k3"}
    /\ LeafKeys = {"k1", "k2"}
    /\ targetKeys = << "k1", "k3" >>
    /\ headerCount = [source |-> 1, target |-> 1]

\* C20: subsequentFocus is true only while shouldCheck is true, and the
\* step in which a timer fires leaves both flags false.
C20_PendingOnlyWhileChecking ==
    /\ [](subsequentFocus => shouldCheck)
    /\ [][ Len(timers') < Len(timers) => (~shouldCheck' /\ ~subsequentFocus') ]_vars

\* a focus event has been recorded in the open check of a blur
C20_Witness ==
    /\ subsequentFocus
    /\ shouldCheck
    /\ Len(timers) = 1
    /\ lastEvt.origin = "focus"

====
